---- MODULE Spec2Model ----
(***************************************************************************)
(* The campus preprocessing pipelines of this repository:                  *)
(*   preprocess_metrics.py      extract_campus_from_region, process_metrics *)
(*   preprocess_publications.py filter_publications                         *)
(*   preprocess_sdm.py          parse_campus_scores_csv and its helpers     *)
(* A Python str is a sequence of characters, each character a one-element   *)
(* string; an accented letter is written with a trailing apostrophe         *)
(* ("e'" is e-acute, "E'" its capital) and is still one character.          *)
(* A JSON value read from an input line is Num(n) or Null; a key that the   *)
(* line does not carry is simply not in the record's DOMAIN.                *)
(***************************************************************************)
EXTENDS Integers, Sequences, FiniteSets, TLC

VARIABLES
    \* the resolver called on one text
    region_text, resolved, mapped_id, rpc,
    \* process_metrics
    current_data, previous_data, previous_lookup, regions, mi, output, mpc,
    \* filter_publications
    publications_data, campus_platform_posts, campus_grouped_output, ppc,
    \* parse_campus_scores_csv
    csv_rows, campuses, current_campus, current_platform, scores_output, cpc,
    \* categorize_score called on two scores
    score_pair, category_pair, kpc

resVars == <<region_text, resolved, mapped_id, rpc>>
metVars == <<current_data, previous_data, previous_lookup, regions, mi, output, mpc>>
pubVars == <<publications_data, campus_platform_posts, campus_grouped_output, ppc>>
csvVars == <<csv_rows, campuses, current_campus, current_platform, scores_output, cpc>>
catVars == <<score_pair, category_pair, kpc>>
vars == <<resVars, metVars, pubVars, csvVars, catVars>>

\* JSON numbers and JSON null
Num(n) == [t |-> "num", v |-> n]
Null == [t |-> "null", v |-> 0]

\* dict.get(key, default) on a record whose DOMAIN is the keys it carries
dict_get(d, key, default) == IF key \in DOMAIN d THEN d[key] ELSE default

Max(S) == CHOOSE m \in S : \A k \in S : m >= k

----------------------------------------------------------------------------
\* Characters and the str methods the pipelines use.

LowerLetters ==
    <<"a", "b", "c", "d", "e", "f", "g", "h", "i", "j", "k", "l", "m",
      "n", "o", "p", "q", "r", "s", "t", "u", "v", "w", "x", "y", "z",
      "a'", "e'", "i'", "o'", "u'">>

UpperLetters ==
    <<"A", "B", "C", "D", "E", "F", "G", "H", "I", "J", "K", "L", "M",
      "N", "O", "P", "Q", "R", "S", "T", "U", "V", "W", "X", "Y", "Z",
      "A'", "E'", "I'", "O'", "U'">>

Range(s) == {s[i] : i \in 1..Len(s)}

DigitChars == {"0", "1", "2", "3", "4", "5", "6", "7", "8", "9"}

SpaceChars == {" "}

OtherChars == {"(", ")", "[", "]", ".", ",", "_", "-", "+", "/"}

Alphabet ==
    Range(LowerLetters) \cup Range(UpperLetters) \cup DigitChars
        \cup SpaceChars \cup OtherChars

upper_char ==
    [c \in Alphabet |->
        IF c \in Range(LowerLetters)
        THEN UpperLetters[CHOOSE i \in 1..Len(LowerLetters) : LowerLetters[i] = c]
        ELSE c]

lower_char ==
    [c \in Alphabet |->
        IF c \in Range(UpperLetters)
        THEN LowerLetters[CHOOSE i \in 1..Len(UpperLetters) : UpperLetters[i] = c]
        ELSE c]

upper(s) == [i \in 1..Len(s) |-> upper_char[s[i]]]

lower(s) == [i \in 1..Len(s) |-> lower_char[s[i]]]

\* the regular expression class \w
IsWord(c) == c \in Range(LowerLetters) \cup Range(UpperLetters) \cup DigitChars \cup {"_"}

\* the regular expression class \s
IsSpace(c) == c \in SpaceChars

\* Python's  needle in hay  on two strings
contains(hay, needle) ==
    \E i \in 0..(Len(hay) - Len(needle)) :
        \A k \in 1..Len(needle) : hay[i + k] = needle[k]

\* Python's  s[:n]
prefix(s, n) == SubSeq(s, 1, IF Len(s) < n THEN Len(s) ELSE n)

Min(S) == CHOOSE m \in S : \A k \in S : m <= k

\* index just past the run of \w (resp. \s) characters that starts at s[i]
RECURSIVE word_run_end(_, _)
word_run_end(s, i) ==
    IF i <= Len(s) /\ IsWord(s[i]) THEN word_run_end(s, i + 1) ELSE i

RECURSIVE space_run_end(_, _)
space_run_end(s, i) ==
    IF i <= Len(s) /\ IsSpace(s[i]) THEN space_run_end(s, i + 1) ELSE i

----------------------------------------------------------------------------
\* The three campus tables.

CAMPUS_MAPPING ==
    << <<<<"M", "T", "Y">>, <<"M", "o", "n", "t", "e", "r", "r", "e", "y">>>>,
       <<<<"P", "U", "E">>, <<"P", "u", "e", "b", "l", "a">>>>,
       <<<<"G", "D", "L">>, <<"G", "u", "a", "d", "a", "l", "a", "j", "a", "r", "a">>>>,
       <<<<"C", "D", "J">>, <<"C", "i", "u", "d", "a", "d", " ", "J", "u", "a'", "r", "e", "z">>>>,
       <<<<"T", "O", "L">>, <<"T", "o", "l", "u", "c", "a">>>>,
       <<<<"C", "C", "M">>, <<"C", "i", "u", "d", "a", "d", " ", "d", "e", " ", "M", "e'", "x", "i", "c", "o">>>>,
       <<<<"C", "E", "M">>, <<"E", "s", "t", "a", "d", "o", " ", "d", "e", " ", "M", "e'", "x", "i", "c", "o">>>>,
       <<<<"Q", "R", "O">>, <<"Q", "u", "e", "r", "e'", "t", "a", "r", "o">>>>,
       <<<<"C", "H", "I">>, <<"C", "h", "i", "h", "u", "a", "h", "u", "a">>>>,
       <<<<"S", "I", "N">>, <<"S", "i", "n", "a", "l", "o", "a">>>>,
       <<<<"A", "G", "S">>, <<"A", "g", "u", "a", "s", "c", "a", "l", "i", "e", "n", "t", "e", "s">>>>,
       <<<<"C", "O", "B">>, <<"C", "i", "u", "d", "a", "d", " ", "O", "b", "r", "e", "g", "o'", "n">>>>,
       <<<<"L", "E", "O">>, <<"L", "e", "o'", "n">>>>,
       <<<<"L", "A", "G">>, <<"L", "a", "g", "u", "n", "a">>>>,
       <<<<"S", "O", "N">>, <<"S", "o", "n", "o", "r", "a">>>>,
       <<<<"H", "G", "O">>, <<"H", "i", "d", "a", "l", "g", "o">>>>,
       <<<<"S", "L", "P">>, <<"S", "a", "n", " ", "L", "u", "i", "s", " ", "P", "o", "t", "o", "s", "i'">>>>,
       <<<<"C", "V", "A">>, <<"C", "u", "e", "r", "n", "a", "v", "a", "c", "a">>>>,
       <<<<"C", "S", "F">>, <<"S", "a", "n", "t", "a", " ", "F", "e">>>>,
       <<<<"S", "A", "L">>, <<"S", "a", "l", "t", "i", "l", "l", "o">>>> >>

\* the table local to extract_campus_from_region: code, name
CAMPUS_MAPPING_region ==
    << <<<<"M", "T", "Y">>, <<"M", "o", "n", "t", "e", "r", "r", "e", "y">>>>,
       <<<<"P", "U", "E">>, <<"P", "u", "e", "b", "l", "a">>>>,
       <<<<"G", "D", "L">>, <<"G", "u", "a", "d", "a", "l", "a", "j", "a", "r", "a">>>>,
       <<<<"C", "D", "J">>, <<"C", "d", ".", " ", "J", "u", "a'", "r", "e", "z">>>>,
       <<<<"T", "O", "L">>, <<"T", "o", "l", "u", "c", "a">>>>,
       <<<<"C", "C", "M">>, <<"C", "i", "u", "d", "a", "d", " ", "d", "e", " ", "M", "e'", "x", "i", "c", "o">>>>,
       <<<<"C", "E", "M">>, <<"E", "s", "t", "a", "d", "o", " ", "d", "e", " ", "M", "e'", "x", "i", "c", "o">>>>,
       <<<<"Q", "R", "O">>, <<"Q", "u", "e", "r", "e'", "t", "a", "r", "o">>>>,
       <<<<"C", "H", "I">>, <<"C", "h", "i", "h", "u", "a", "h", "u", "a">>>>,
       <<<<"S", "I", "N">>, <<"S", "i", "n", "a", "l", "o", "a">>>>,
       <<<<"A", "G", "S">>, <<"A", "g", "u", "a", "s", "c", "a", "l", "i", "e", "n", "t", "e", "s">>>>,
       <<<<"C", "O", "B">>, <<"C", "d", ".", " ", "O", "b", "r", "e", "g", "o'", "n">>>>,
       <<<<"L", "E", "O">>, <<"L", "e", "o'", "n">>>>,
       <<<<"L", "A", "G">>, <<"L", "a", "g", "u", "n", "a">>>>,
       <<<<"S", "O", "N">>, <<"S", "o", "n", "o", "r", "a">>>>,
       <<<<"H", "G", "O">>, <<"H", "i", "d", "a", "l", "g", "o">>>>,
       <<<<"S", "L", "P">>, <<"S", "a", "n", " ", "L", "u", "i", "s", " ", "P", "o", "t", "o", "s", "i'">>>>,
       <<<<"C", "V", "A">>, <<"C", "u", "e", "r", "n", "a", "v", "a", "c", "a">>>>,
       <<<<"C", "S", "F">>, <<"S", "a", "n", "t", "a", " ", "F", "e">>>>,
       <<<<"S", "A", "L">>, <<"S", "a", "l", "t", "i", "l", "l", "o">>>> >>

\* the table local to map_campus_name_to_id: full name, code
CAMPUS_MAPPING_name ==
    << <<<<"M", "o", "n", "t", "e", "r", "r", "e", "y">>, <<"M", "T", "Y">>>>,
       <<<<"P", "u", "e", "b", "l", "a">>, <<"P", "U", "E">>>>,
       <<<<"G", "u", "a", "d", "a", "l", "a", "j", "a", "r", "a">>, <<"G", "D", "L">>>>,
       <<<<"C", "i", "u", "d", "a", "d", " ", "J", "u", "a'", "r", "e", "z">>, <<"C", "D", "J">>>>,
       <<<<"T", "o", "l", "u", "c", "a">>, <<"T", "O", "L">>>>,
       <<<<"C", "i", "u", "d", "a", "d", " ", "d", "e", " ", "M", "e'", "x", "i", "c", "o">>, <<"C", "C", "M">>>>,
       <<<<"E", "s", "t", "a", "d", "o", " ", "d", "e", " ", "M", "e'", "x", "i", "c", "o">>, <<"C", "E", "M">>>>,
       <<<<"Q", "u", "e", "r", "e'", "t", "a", "r", "o">>, <<"Q", "R", "O">>>>,
       <<<<"C", "h", "i", "h", "u", "a", "h", "u", "a">>, <<"C", "H", "I">>>>,
       <<<<"S", "i", "n", "a", "l", "o", "a">>, <<"S", "I", "N">>>>,
       <<<<"A", "g", "u", "a", "s", "c", "a", "l", "i", "e", "n", "t", "e", "s">>, <<"A", "G", "S">>>>,
       <<<<"C", "i", "u", "d", "a", "d", " ", "O", "b", "r", "e", "g", "o'", "n">>, <<"C", "O", "B">>>>,
       <<<<"L", "e", "o'", "n">>, <<"L", "E", "O">>>>,
       <<<<"L", "a", "g", "u", "n", "a">>, <<"L", "A", "G">>>>,
       <<<<"S", "o", "n", "o", "r", "a">>, <<"S", "O", "N">>>>,
       <<<<"H", "i", "d", "a", "l", "g", "o">>, <<"H", "G", "O">>>>,
       <<<<"S", "a", "n", " ", "L", "u", "i", "s", " ", "P", "o", "t", "o", "s", "i'">>, <<"S", "L", "P">>>>,
       <<<<"C", "u", "e", "r", "n", "a", "v", "a", "c", "a">>, <<"C", "V", "A">>>>,
       <<<<"S", "a", "n", "t", "a", " ", "F", "e">>, <<"C", "S", "F">>>>,
       <<<<"S", "a", "l", "t", "i", "l", "l", "o">>, <<"S", "A", "L">>>> >>

\* dict.get(key, default) on a table of <<key, value>> pairs
table_get(table, key, default) ==
    IF \E i \in 1..Len(table) : table[i][1] = key
    THEN table[CHOOSE i \in 1..Len(table) : table[i][1] = key][2]
    ELSE default

----------------------------------------------------------------------------
\* preprocess_metrics.py: extract_campus_from_region

\* the group of  \((\w+)\)  matched at position i, <<>> when it does not match
paren_match_at(s, i) ==
    IF s[i] # "(" THEN <<>>
    ELSE LET e == word_run_end(s, i + 1)
         IN  IF e > i + 1 /\ e <= Len(s) /\ s[e] = ")"
             THEN SubSeq(s, i + 1, e - 1)
             ELSE <<>>

\* re.search(r'\((\w+)\)', s): group 1 of the leftmost match, <<>> for None
RECURSIVE paren_search_from(_, _)
paren_search_from(s, i) ==
    IF i > Len(s) THEN <<>>
    ELSE LET g == paren_match_at(s, i)
         IN  IF g # <<>> THEN g ELSE paren_search_from(s, i + 1)

paren_search(s) == paren_search_from(s, 1)

code_strategy(region) ==
    LET region_upper == upper(region)
        hits == {i \in 1..Len(CAMPUS_MAPPING_region) :
                    contains(region_upper, CAMPUS_MAPPING_region[i][1])}
    IN  IF hits = {} THEN <<>>
        ELSE <<CAMPUS_MAPPING_region[Min(hits)][1], CAMPUS_MAPPING_region[Min(hits)][2]>>

\* slip: the name is lowered, the text is not
name_strategy_case(region) ==
    LET hits == {i \in 1..Len(CAMPUS_MAPPING_region) :
                    contains(region, lower(CAMPUS_MAPPING_region[i][2]))}
    IN  IF hits = {} THEN <<>>
        ELSE <<CAMPUS_MAPPING_region[Min(hits)][1], CAMPUS_MAPPING_region[Min(hits)][2]>>

name_strategy(region) ==
    LET hits == {i \in 1..Len(CAMPUS_MAPPING_region) :
                    contains(lower(region), lower(CAMPUS_MAPPING_region[i][2]))}
    IN  IF hits = {} THEN <<>>
        ELSE <<CAMPUS_MAPPING_region[Min(hits)][1], CAMPUS_MAPPING_region[Min(hits)][2]>>

\* slip: > 3 in place of >= 3
fallback_strategy_gt(region) ==
    <<IF Len(region) > 3 THEN upper(prefix(region, 3)) ELSE <<"U", "N", "K">>, region>>

fallback_strategy(region) ==
    <<IF Len(region) >= 3 THEN upper(prefix(region, 3)) ELSE <<"U", "N", "K">>, region>>

\* slip: the parenthesized token is looked up without .upper()
extract_campus_from_region_raw(r) ==
    LET match == paren_search(r)
    IN  IF match # <<>>
        THEN <<match, table_get(CAMPUS_MAPPING_region, match, match)>>
        ELSE IF code_strategy(r) # <<>> THEN code_strategy(r)
        ELSE IF name_strategy(r) # <<>> THEN name_strategy(r)
        ELSE fallback_strategy(r)

extract_campus_from_region(r) ==
    LET match == paren_search(r)
    IN  IF match # <<>>
        THEN LET campus_id == upper(match)
             IN  <<campus_id, table_get(CAMPUS_MAPPING_region, campus_id, campus_id)>>
        ELSE IF code_strategy(r) # <<>> THEN code_strategy(r)
        ELSE IF name_strategy(r) # <<>> THEN name_strategy(r)
        ELSE fallback_strategy(r)

----------------------------------------------------------------------------
\* preprocess_sdm.py: map_campus_name_to_id

map_campus_name_to_id(campus_name) ==
    LET hits == {i \in 1..Len(CAMPUS_MAPPING_name) :
                    contains(lower(campus_name), lower(CAMPUS_MAPPING_name[i][1]))}
    IN  IF hits # {} THEN CAMPUS_MAPPING_name[Min(hits)][2]
        ELSE upper(prefix(campus_name, 3))

----------------------------------------------------------------------------
\* The resolver on its own: one REGION text is resolved, and the display
\* name it yields is mapped back to a code by the score-table resolver.

MaxLen == 4

RECURSIVE strings_upto(_, _)
strings_upto(sigma, n) ==
    IF n = 0 THEN {<<>>}
    ELSE LET shorter == strings_upto(sigma, n - 1)
         IN  shorter \cup {Append(s, c) : s \in shorter, c \in sigma}

ShortChars == {"(", ")", "s", "A", "L", " "}

ShortTexts == strings_upto(ShortChars, MaxLen)

Codes == {CAMPUS_MAPPING_region[i][1] : i \in 1..Len(CAMPUS_MAPPING_region)}

Names == {CAMPUS_MAPPING_region[i][2] : i \in 1..Len(CAMPUS_MAPPING_region)}

\* first letter lowered, as in "mTY"
mixed(s) == [i \in 1..Len(s) |-> IF i = 1 THEN lower_char[s[i]] ELSE s[i]]

ParenTokens ==
    Codes \cup {lower(c) : c \in Codes} \cup {mixed(c) : c \in Codes}
        \cup {<<"X", "Y", "Z">>, <<"a", "b", "_", "1">>, <<"L", "e", "o'", "n">>, <<"s", "a", "l">>}

ParenPrefixes == {<<>>, <<"C", "a", "m", "p", "u", "s", " ", "M", "o", "n", "t", "e", "r", "r", "e", "y", " ">>, <<"P", "U", "E", " ">>, <<"(", "a", " ", "b", ")", " ", "(", "(">>, <<"(", ")">>}

ParenSuffixes == {<<>>, <<" ", "(", "P", "U", "E", ")">>, <<" ", "S", "a", "l", "t", "i", "l", "l", "o">>, <<")">>}

ParenTexts ==
    {pre \o <<"(">> \o tok \o <<")">> \o suf :
        pre \in ParenPrefixes, tok \in ParenTokens, suf \in ParenSuffixes}

NameTexts ==
    Names \cup {lower(n) : n \in Names} \cup {upper(n) : n \in Names}
        \cup {<<"C", "a", "m", "p", "u", "s", " ">> \o n : n \in Names}
        \cup {n \o <<" ", "(", "x", " ", "y", ")">> : n \in Names}

OtherTexts == {<<"T", "e", "c">>, <<"z", "z">>, <<"m", "e'", "x">>, <<"R", "e", "g", "i", "o'", "n", " ", "N", "o", "r", "t", "e">>, <<"C", "a", "m", "p", "u", "s", " ", "(", "L", "e", "o'", "n">>, <<"q", "-", "1">>}

RegionTexts == ShortTexts \cup ParenTexts \cup NameTexts \cup OtherTexts

IdleResolve ==
    /\ region_text = <<>>
    /\ resolved = <<>>
    /\ mapped_id = <<>>
    /\ rpc = "idle"

IdleMetrics ==
    /\ current_data = <<>>
    /\ previous_data = <<>>
    /\ previous_lookup = <<>>
    /\ regions = <<>>
    /\ mi = 0
    /\ output = <<>>
    /\ mpc = "idle"

IdlePublications ==
    /\ publications_data = <<>>
    /\ campus_platform_posts = <<>>
    /\ campus_grouped_output = <<>>
    /\ ppc = "idle"

IdleScores ==
    /\ csv_rows = <<>>
    /\ campuses = <<>>
    /\ current_campus = <<>>
    /\ current_platform = ""
    /\ scores_output = <<>>
    /\ cpc = "idle"

IdleCategorize ==
    /\ score_pair = <<>>
    /\ category_pair = <<>>
    /\ kpc = "idle"

InitResolve ==
    /\ region_text \in RegionTexts
    /\ resolved = <<>>
    /\ mapped_id = <<>>
    /\ rpc = "call"
    /\ IdleMetrics
    /\ IdlePublications
    /\ IdleScores
    /\ IdleCategorize

Resolve ==
    /\ rpc = "call"
    /\ resolved' = extract_campus_from_region(region_text)
    /\ rpc' = "resolved"
    /\ UNCHANGED <<region_text, mapped_id, metVars, pubVars, csvVars, catVars>>

MapName ==
    /\ rpc = "resolved"
    /\ mapped_id' = map_campus_name_to_id(resolved[2])
    /\ rpc' = "mapped"
    /\ UNCHANGED <<region_text, resolved, metVars, pubVars, csvVars, catVars>>

NextResolve == Resolve \/ MapName

SpecResolve == InitResolve /\ [][NextResolve]_vars

----------------------------------------------------------------------------
\* preprocess_metrics.py: process_metrics

MaxCurrent == 2
MaxPrevious == 2

MetricKeys ==
    {"POST_COMMENTS__SUM", "ALCANCE_TOTAL", "VOLUMEN_DE_PUBLICACIONES",
     "INTERACCIONES_TOTALES"}

\* the counters an input line may carry: all four as numbers, or some of
\* them with a JSON null among them and one key missing
CounterSets ==
    { [POST_COMMENTS__SUM |-> Num(3), ALCANCE_TOTAL |-> Num(100),
       VOLUMEN_DE_PUBLICACIONES |-> Num(2), INTERACCIONES_TOTALES |-> Num(50)],
      [POST_COMMENTS__SUM |-> Num(4), ALCANCE_TOTAL |-> Num(7),
       INTERACCIONES_TOTALES |-> Null] }

\* two REGION texts that resolve to the same campus
MetricRegions == {<<"X", " ", "(", "M", "T", "Y", ")">>, <<"M", "T", "Y">>}

\* a line of the previous-year file always carries REGION (line 81 indexes it)
PreviousLines == {[REGION |-> r] @@ c : r \in MetricRegions, c \in CounterSets}

\* current.get('REGION', '') also admits a line without REGION
CurrentLines == PreviousLines \cup {[INTERACCIONES_TOTALES |-> Num(500)]}

\* line 81: {item['REGION']: item for item in previous_data}, a later item
\* replacing an earlier one under the same key
\* slip: the first item with a REGION text is kept
build_previous_lookup_first(data) ==
    [r \in {data[j].REGION : j \in 1..Len(data)} |->
        data[Min({j \in 1..Len(data) : data[j].REGION = r})]]

build_previous_lookup(data) ==
    [r \in {data[j].REGION : j \in 1..Len(data)} |->
        data[Max({j \in 1..Len(data) : data[j].REGION = r})]]

\* previous_lookup.get(region_str, None); <<>> stands for None
lookup_get(lookup, region_str) ==
    IF region_str \in DOMAIN lookup THEN lookup[region_str] ELSE <<>>

\* lines 96-101 and 105-110
period_metrics(item) ==
    [POST_COMMENTS__SUM |-> dict_get(item, "POST_COMMENTS__SUM", Num(0)),
     ALCANCE_TOTAL |-> dict_get(item, "ALCANCE_TOTAL", Num(0)),
     VOLUMEN_DE_PUBLICACIONES |-> dict_get(item, "VOLUMEN_DE_PUBLICACIONES", Num(0)),
     INTERACCIONES_TOTALES |-> dict_get(item, "INTERACCIONES_TOTALES", Num(0))]

\* lines 112-117
zero_metrics ==
    [POST_COMMENTS__SUM |-> Num(0), ALCANCE_TOTAL |-> Num(0),
     VOLUMEN_DE_PUBLICACIONES |-> Num(0), INTERACCIONES_TOTALES |-> Num(0)]

\* lines 87-126: the body of the loop over current_data
region_combined(current, lookup) ==
    LET region_str == dict_get(current, "REGION", <<>>)
        campus == extract_campus_from_region(region_str)
        previous == lookup_get(lookup, region_str)
    IN  [campus_id |-> campus[1],
         campus_name |-> campus[2],
         current_month |-> period_metrics(current),
         previous_year_month |->
            IF previous # <<>> THEN period_metrics(previous) ELSE zero_metrics]

\* slip: an entry whose campus_id is already present is dropped
regions_append_dedup(rs, entry) ==
    IF \E i \in 1..Len(rs) : rs[i].campus_id = entry.campus_id
    THEN rs
    ELSE Append(rs, entry)

\* line 128
regions_append(rs, entry) == Append(rs, entry)

\* lines 131-138
metrics_output(rs) == [regions |-> rs, total_regions |-> Len(rs)]

\* lines 149-152 format INTERACCIONES_TOTALES with :6d, which raises
\* TypeError on None
summary_prints(rs) ==
    \A i \in 1..Len(rs) :
        /\ rs[i].current_month.INTERACCIONES_TOTALES.t = "num"
        /\ rs[i].previous_year_month.INTERACCIONES_TOTALES.t = "num"

InitMetrics ==
    /\ current_data = <<>>
    /\ previous_data = <<>>
    /\ previous_lookup = <<>>
    /\ regions = <<>>
    /\ mi = 0
    /\ output = <<>>
    /\ mpc = "read_current"
    /\ IdleResolve
    /\ IdlePublications
    /\ IdleScores
    /\ IdleCategorize

ReadCurrentLine ==
    /\ mpc = "read_current"
    /\ Len(current_data) < MaxCurrent
    /\ \E line \in CurrentLines : current_data' = Append(current_data, line)
    /\ UNCHANGED <<previous_data, previous_lookup, regions, mi, output, mpc, resVars, pubVars, csvVars, catVars>>

EndCurrent ==
    /\ mpc = "read_current"
    /\ mpc' = "read_previous"
    /\ UNCHANGED <<current_data, previous_data, previous_lookup, regions, mi, output, resVars, pubVars, csvVars, catVars>>

ReadPreviousLine ==
    /\ mpc = "read_previous"
    /\ Len(previous_data) < MaxPrevious
    /\ \E line \in PreviousLines : previous_data' = Append(previous_data, line)
    /\ UNCHANGED <<current_data, previous_lookup, regions, mi, output, mpc, resVars, pubVars, csvVars, catVars>>

BuildLookup ==
    /\ mpc = "read_previous"
    /\ previous_lookup' = build_previous_lookup(previous_data)
    /\ mpc' = "merge"
    /\ UNCHANGED <<current_data, previous_data, regions, mi, output, resVars, pubVars, csvVars, catVars>>

MergeRecord ==
    /\ mpc = "merge"
    /\ mi < Len(current_data)
    /\ regions' = regions_append(regions,
                      region_combined(current_data[mi + 1], previous_lookup))
    /\ mi' = mi + 1
    /\ UNCHANGED <<current_data, previous_data, previous_lookup, output, mpc, resVars, pubVars, csvVars, catVars>>

WriteOutput ==
    /\ mpc = "merge"
    /\ mi = Len(current_data)
    /\ output' = metrics_output(regions)
    /\ mpc' = "saved"
    /\ UNCHANGED <<current_data, previous_data, previous_lookup, regions, mi, resVars, pubVars, csvVars, catVars>>

PrintSummary ==
    /\ mpc = "saved"
    /\ mpc' = IF summary_prints(regions) THEN "returned" ELSE "TypeError"
    /\ UNCHANGED <<current_data, previous_data, previous_lookup, regions, mi, output, resVars, pubVars, csvVars, catVars>>

NextMetrics ==
    \/ ReadCurrentLine
    \/ EndCurrent
    \/ ReadPreviousLine
    \/ BuildLookup
    \/ MergeRecord
    \/ WriteOutput
    \/ PrintSummary

SpecMetrics == InitMetrics /\ [][NextMetrics]_vars

----------------------------------------------------------------------------
\* preprocess_publications.py: filter_publications

MaxPubs == 5

ACCOUNT_GDL == <<"C", "a", "m", "p", "u", "s", " ", "G", "D", "L", " ", "[">>
ACCOUNT_gdl == <<"c", "a", "m", "p", "u", "s", " ", " ", "g", "d", "l", " ", "[">>
ACCOUNT_MTY == <<"U", "n", " ", "C", "a", "m", "p", "u", "s", " ", "M", "T", "Y", " ", "[", "F", "B", "]">>
ACCOUNT_PUE == <<"C", "a", "m", "p", "u", "s", " ", "P", "U", "E", " ", "[">>
ACCOUNT_other == <<"C", "a", "m", "p", "u", "s", " ", "G", "D", "L", "[">>

\* the lines of the publications file
RawPublications ==
    { [ACCOUNT |-> ACCOUNT_GDL, SOCIAL_NETWORK |-> <<"I", "n", "s", "t", "a", "g", "r", "a", "m">>,
       INTERACCIONES_GENERAL__SUM |-> Num(1), ALCANCE_GENERAL__SUM |-> Null],
      [ACCOUNT |-> ACCOUNT_gdl, SOCIAL_NETWORK |-> <<"I", "N", "S", "T", "A", "G", "R", "A", "M">>,
       INTERACCIONES_GENERAL__SUM |-> Null, ALCANCE_GENERAL__SUM |-> Num(10),
       PUBLISHEDTIME |-> <<"t", "2">>],
      [ACCOUNT |-> ACCOUNT_GDL, SOCIAL_NETWORK |-> <<"I", "n", "s", "t", "a", "g", "r", "a", "m">>,
       ALCANCE_GENERAL__SUM |-> Num(25), OUTBOUND_POST |-> <<"p", "3">>],
      [ACCOUNT |-> ACCOUNT_gdl, SOCIAL_NETWORK |-> <<"F", "A", "C", "E", "B", "O", "O", "K">>,
       INTERACCIONES_GENERAL__SUM |-> Num(1)],
      [ACCOUNT |-> ACCOUNT_MTY, SOCIAL_NETWORK |-> <<"F", "a", "c", "e", "b", "o", "o", "k">>,
       INTERACCIONES_GENERAL__SUM |-> Num(1), ALCANCE_GENERAL__SUM |-> Num(1)],
      [ACCOUNT |-> ACCOUNT_PUE, SOCIAL_NETWORK |-> <<"T", "w", "i", "t", "t", "e", "r">>,
       INTERACCIONES_GENERAL__SUM |-> Num(5), ALCANCE_GENERAL__SUM |-> Num(5)],
      [ACCOUNT |-> ACCOUNT_other, SOCIAL_NETWORK |-> <<"I", "n", "s", "t", "a", "g", "r", "a", "m">>,
       INTERACCIONES_GENERAL__SUM |-> Num(9), ALCANCE_GENERAL__SUM |-> Num(9)] }

\* group 1 of  Campus\s+(\w+)\s+\[  (IGNORECASE) matched at position i,
\* <<>> when it does not match there
campus_match_at(s, i) ==
    IF i + 5 > Len(s) \/ \E k \in 1..6 : lower_char[s[i + k - 1]] # <<"c", "a", "m", "p", "u", "s">>[k]
    THEN <<>>
    ELSE LET w == space_run_end(s, i + 6)
             e == word_run_end(s, w)
             b == space_run_end(s, e)
         IN  IF w > i + 6 /\ e > w /\ b > e /\ b <= Len(s) /\ s[b] = "["
             THEN SubSeq(s, w, e - 1)
             ELSE <<>>

\* line 35: re.search, group 1 of the leftmost match, <<>> for None
RECURSIVE campus_search_from(_, _)
campus_search_from(s, i) ==
    IF i > Len(s) THEN <<>>
    ELSE LET g == campus_match_at(s, i)
         IN  IF g # <<>> THEN g ELSE campus_search_from(s, i + 1)

campus_search(account) == campus_search_from(account, 1)

\* pub.get(key, 0) or 0
number_or_zero(pub, key) ==
    LET x == dict_get(pub, key, Num(0))
    IN  IF x.t = "null" THEN 0 ELSE x.v

\* lines 46-51; "" when the record is skipped
platform_of(pub) ==
    LET social_network == lower(dict_get(pub, "SOCIAL_NETWORK", <<>>))
    IN  IF contains(social_network, <<"i", "n", "s", "t", "a", "g", "r", "a", "m">>) THEN "instagram"
        ELSE IF contains(social_network, <<"f", "a", "c", "e", "b", "o", "o", "k">>) THEN "facebook"
        ELSE ""

\* lines 39-63
filtered_pub(pub) ==
    LET interactions == number_or_zero(pub, "INTERACCIONES_GENERAL__SUM")
        alcance == number_or_zero(pub, "ALCANCE_GENERAL__SUM")
    IN  [PUBLISHEDTIME |-> dict_get(pub, "PUBLISHEDTIME", <<>>),
         SOCIAL_NETWORK |-> dict_get(pub, "SOCIAL_NETWORK", <<>>),
         INTERACCIONES_GENERAL__SUM |-> interactions,
         ACCOUNT |-> dict_get(pub, "ACCOUNT", <<>>),
         ALCANCE_GENERAL__SUM |-> alcance,
         OUTBOUND_POST |-> dict_get(pub, "OUTBOUND_POST", <<>>),
         engagement_score |-> (interactions * 10) + alcance]

\* platforms[platform].append(post) on an insertion-ordered defaultdict(list)
platform_append(platforms, platform, post) ==
    IF \E p \in 1..Len(platforms) : platforms[p].platform = platform
    THEN LET p == CHOOSE q \in 1..Len(platforms) : platforms[q].platform = platform
         IN  [platforms EXCEPT ![p].posts = Append(@, post)]
    ELSE Append(platforms, [platform |-> platform, posts |-> <<post>>])

\* line 65: campus_platform_posts[campus_id][platform].append(filtered_pub)
campus_append(posts, campus_id, platform, post) ==
    IF \E c \in 1..Len(posts) : posts[c].campus_id = campus_id
    THEN LET c == CHOOSE d \in 1..Len(posts) : posts[d].campus_id = campus_id
         IN  [posts EXCEPT ![c].platforms = platform_append(@, platform, post)]
    ELSE Append(posts, [campus_id |-> campus_id,
                        platforms |-> platform_append(<<>>, platform, post)])

\* slip: the campus entry is created as soon as ACCOUNT matches, before the
\* platform is looked at
group_publication_eager(posts, pub) ==
    LET match == campus_search(dict_get(pub, "ACCOUNT", <<>>))
    IN  IF match = <<>> THEN posts
        ELSE IF platform_of(pub) = ""
        THEN IF \E c \in 1..Len(posts) : posts[c].campus_id = upper(match)
             THEN posts
             ELSE Append(posts, [campus_id |-> upper(match), platforms |-> <<>>])
        ELSE campus_append(posts, upper(match), platform_of(pub), filtered_pub(pub))

\* lines 31-65: the body of the loop over publications_data
group_publication(posts, pub) ==
    LET match == campus_search(dict_get(pub, "ACCOUNT", <<>>))
    IN  IF match = <<>> \/ platform_of(pub) = "" THEN posts
        ELSE campus_append(posts, upper(match), platform_of(pub), filtered_pub(pub))

\* lines 30-65
RECURSIVE group_publications(_, _, _)
group_publications(posts, data, i) ==
    IF i > Len(data) THEN posts
    ELSE group_publications(group_publication(posts, data[i]), data, i + 1)

\* lines 68-71 and 81: platform_limits.get(platform, 0)
platform_limits(platform) ==
    IF platform = "instagram" THEN 4
    ELSE IF platform = "facebook" THEN 4
    ELSE 0

\* slip: the new post goes before the posts of equal score
RECURSIVE insert_by_score_before(_, _)
insert_by_score_before(sorted, post) ==
    IF sorted = <<>> THEN <<post>>
    ELSE IF Head(sorted).engagement_score > post.engagement_score
         THEN <<Head(sorted)>> \o insert_by_score_before(Tail(sorted), post)
         ELSE <<post>> \o sorted

\* list.insert keeping the scores non-increasing, after the equal ones
RECURSIVE insert_by_score(_, _)
insert_by_score(sorted, post) ==
    IF sorted = <<>> THEN <<post>>
    ELSE IF Head(sorted).engagement_score >= post.engagement_score
         THEN <<Head(sorted)>> \o insert_by_score(Tail(sorted), post)
         ELSE <<post>> \o sorted

\* line 85: sorted(posts, key=engagement_score, reverse=True), a stable sort
RECURSIVE sorted_posts(_)
sorted_posts(posts) ==
    IF posts = <<>> THEN <<>>
    ELSE insert_by_score(sorted_posts(SubSeq(posts, 1, Len(posts) - 1)),
                         posts[Len(posts)])

\* slip: the slice keeps one record too many
top_posts_plus(posts, limit) == prefix(sorted_posts(posts), limit + 1)

\* lines 85-86
top_posts(posts, limit) == prefix(sorted_posts(posts), limit)

\* lines 77-89 from the p-th platform on
RECURSIVE campus_posts_from(_, _)
campus_posts_from(platforms, p) ==
    IF p > Len(platforms) THEN <<>>
    ELSE LET limit == platform_limits(platforms[p].platform)
         IN  (IF limit > 0 THEN top_posts(platforms[p].posts, limit) ELSE <<>>)
                 \o campus_posts_from(platforms, p + 1)

\* slip: instagram is always emitted first, whatever the dict's order
campus_posts_fixed(platforms) ==
    LET posts_of(name) ==
            IF \E q \in 1..Len(platforms) : platforms[q].platform = name
            THEN top_posts(platforms[CHOOSE q \in 1..Len(platforms) :
                                        platforms[q].platform = name].posts,
                           platform_limits(name))
            ELSE <<>>
    IN  posts_of("instagram") \o posts_of("facebook")

\* lines 77-89: the top posts of each platform, in platforms.items() order
campus_posts(platforms) == campus_posts_from(platforms, 1)

\* lines 76-96
grouped_output(posts) ==
    [c \in 1..Len(posts) |->
        [campus_id |-> posts[c].campus_id,
         publications |-> campus_posts(posts[c].platforms)]]

InitPublications ==
    /\ publications_data = <<>>
    /\ campus_platform_posts = <<>>
    /\ campus_grouped_output = <<>>
    /\ ppc = "read"
    /\ IdleResolve
    /\ IdleMetrics
    /\ IdleScores
    /\ IdleCategorize

ReadPublication ==
    /\ ppc = "read"
    /\ Len(publications_data) < MaxPubs
    /\ \E line \in RawPublications :
          publications_data' = Append(publications_data, line)
    /\ UNCHANGED <<campus_platform_posts, campus_grouped_output, ppc, resVars, metVars, csvVars, catVars>>

GroupPublications ==
    /\ ppc = "read"
    /\ campus_platform_posts' = group_publications(<<>>, publications_data, 1)
    /\ ppc' = "grouped"
    /\ UNCHANGED <<publications_data, campus_grouped_output, resVars, metVars, csvVars, catVars>>

SelectTopPosts ==
    /\ ppc = "grouped"
    /\ campus_grouped_output' = grouped_output(campus_platform_posts)
    /\ ppc' = "done"
    /\ UNCHANGED <<publications_data, campus_platform_posts, resVars, metVars, csvVars, catVars>>

NextPublications == ReadPublication \/ GroupPublications \/ SelectTopPosts

SpecPublications == InitPublications /\ [][NextPublications]_vars

\* filter_publications on a file whose lines differ in engagement score.

MaxScored == 5

\* lines of one campus and platform with the scores 10, 50, 30, 20 and 40,
\* a second line with score 30, and a line of another campus and platform
ScoredPublications ==
    { [ACCOUNT |-> ACCOUNT_GDL, SOCIAL_NETWORK |-> <<"I", "n", "s", "t", "a", "g", "r", "a", "m">>,
       INTERACCIONES_GENERAL__SUM |-> Num(1), ALCANCE_GENERAL__SUM |-> Null],
      [ACCOUNT |-> ACCOUNT_GDL, SOCIAL_NETWORK |-> <<"I", "n", "s", "t", "a", "g", "r", "a", "m">>,
       INTERACCIONES_GENERAL__SUM |-> Num(5)],
      [ACCOUNT |-> ACCOUNT_GDL, SOCIAL_NETWORK |-> <<"I", "n", "s", "t", "a", "g", "r", "a", "m">>,
       INTERACCIONES_GENERAL__SUM |-> Num(3), ALCANCE_GENERAL__SUM |-> Num(0)],
      [ACCOUNT |-> ACCOUNT_GDL, SOCIAL_NETWORK |-> <<"I", "n", "s", "t", "a", "g", "r", "a", "m">>,
       INTERACCIONES_GENERAL__SUM |-> Num(1), ALCANCE_GENERAL__SUM |-> Num(10)],
      [ACCOUNT |-> ACCOUNT_GDL, SOCIAL_NETWORK |-> <<"I", "n", "s", "t", "a", "g", "r", "a", "m">>,
       INTERACCIONES_GENERAL__SUM |-> Null, ALCANCE_GENERAL__SUM |-> Num(40)],
      [ACCOUNT |-> ACCOUNT_gdl, SOCIAL_NETWORK |-> <<"I", "N", "S", "T", "A", "G", "R", "A", "M">>,
       ALCANCE_GENERAL__SUM |-> Num(30), PUBLISHEDTIME |-> <<"t", "2">>],
      [ACCOUNT |-> ACCOUNT_MTY, SOCIAL_NETWORK |-> <<"F", "a", "c", "e", "b", "o", "o", "k">>,
       INTERACCIONES_GENERAL__SUM |-> Num(6)] }

ReadScoredPublication ==
    /\ ppc = "read"
    /\ Len(publications_data) < MaxScored
    /\ \E line \in ScoredPublications :
          publications_data' = Append(publications_data, line)
    /\ UNCHANGED <<campus_platform_posts, campus_grouped_output, ppc, resVars, metVars, csvVars, catVars>>

NextSelection == ReadScoredPublication \/ GroupPublications \/ SelectTopPosts

SpecSelection == InitPublications /\ [][NextSelection]_vars

----------------------------------------------------------------------------
\* preprocess_sdm.py: parse_campus_scores_csv and its helpers

MaxRows == 4

\* str.strip()
strip(s) ==
    LET kept == {i \in 1..Len(s) : ~IsSpace(s[i])}
    IN  IF kept = {} THEN <<>> ELSE SubSeq(s, Min(kept), Max(kept))

\* value.replace(',', '')
remove_commas(s) == SelectSeq(s, LAMBDA c : c # ",")

DigitSeq == <<"0", "1", "2", "3", "4", "5", "6", "7", "8", "9">>

digit_value(c) == (CHOOSE d \in 1..10 : DigitSeq[d] = c) - 1

unsigned(s) == IF s # <<>> /\ s[1] \in {"+", "-"} THEN Tail(s) ELSE s

\* the literals int() accepts: an optional sign, then digits, single
\* underscores allowed between digits
is_int_literal(s) ==
    LET body == unsigned(s)
    IN  /\ body # <<>>
        /\ \A i \in 1..Len(body) : body[i] \in DigitChars \cup {"_"}
        /\ body[1] \in DigitChars
        /\ body[Len(body)] \in DigitChars
        /\ \A i \in 1..(Len(body) - 1) : ~(body[i] = "_" /\ body[i + 1] = "_")

RECURSIVE digits_value(_, _, _)
digits_value(body, i, acc) ==
    IF i > Len(body) THEN acc
    ELSE digits_value(body, i + 1,
                      IF body[i] = "_" THEN acc ELSE acc * 10 + digit_value(body[i]))

int_value(s) ==
    LET magnitude == digits_value(unsigned(s), 1, 0)
    IN  IF s[1] = "-" THEN 0 - magnitude ELSE magnitude

\* lines 174-184; Null stands for None
parse_score(value) ==
    IF value = <<>> \/ lower(value) = <<"c", "a", "l", "i", "f", "i", "c", "a", "c", "i", "o", "n", "e", "s">> THEN Null
    ELSE LET literal == strip(remove_commas(value))
         IN  IF is_int_literal(literal) THEN Num(int_value(literal)) ELSE Null

\* slip: the first threshold compared strictly, so 75 is no longer deficiente
categorize_score_strict(score) ==
    IF score.t = "null" THEN "None"
    ELSE IF score.v < 75 THEN "deficiente"
    ELSE IF score.v <= 100 THEN "regular"
    ELSE IF score.v <= 120 THEN "satisfactorio"
    ELSE IF score.v <= 140 THEN "sobresaliente"
    ELSE "excepcional"

\* lines 5-26; "None" stands for None
categorize_score(score) ==
    IF score.t = "null" THEN "None"
    ELSE IF score.v <= 75 THEN "deficiente"
    ELSE IF score.v <= 100 THEN "regular"
    ELSE IF score.v <= 120 THEN "satisfactorio"
    ELSE IF score.v <= 140 THEN "sobresaliente"
    ELSE "excepcional"

\* line 71: the platform rows, with the key of the platform's score-set
platform_names ==
    << <<<<"f", "a", "c", "e", "b", "o", "o", "k">>, "facebook">>, <<<<"t", "w", "i", "t", "t", "e", "r">>, "twitter">>,
       <<<<"i", "n", "s", "t", "a", "g", "r", "a", "m">>, "instagram">>, <<<<"t", "o", "t", "a", "l", "e", "s">>, "totales">> >>

\* lines 75 and 163-169: the score rows, with the normalized score name
score_names ==
    << <<<<"v", "i", "s", "i", "b", "i", "l", "i", "d", "a", "d">>, "visibilidad">>, <<<<"r", "e", "s", "o", "n", "a", "n", "c", "i", "a">>, "resonancia">>,
       <<<<"p", "e", "r", "m", "a", "n", "e", "n", "c", "i", "a">>, "permanencia">>, <<<<"s", "e", "n", "t", "i", "m", "i", "e", "n", "t", "o">>, "sentimiento">>,
       <<<<"s", "a", "l", "u", "d", " ", "d", "e", " ", "m", "a", "r", "c", "a">>, "salud_de_marca">> >>

\* lines 160-171
normalize_score_name(score_name) == table_get(score_names, lower(score_name), "")

\* line 82: f"{score_type}_categoria"
categoria_key ==
    [k \in {"visibilidad", "resonancia", "permanencia", "sentimiento", "salud_de_marca"} |->
        CASE k = "visibilidad" -> "visibilidad_categoria"
          [] k = "resonancia" -> "resonancia_categoria"
          [] k = "permanencia" -> "permanencia_categoria"
          [] k = "sentimiento" -> "sentimiento_categoria"
          [] k = "salud_de_marca" -> "salud_de_marca_categoria"]

\* lines 57-67
new_campus(campus_name) ==
    [campus_id |-> map_campus_name_to_id(campus_name),
     campus_name |-> campus_name,
     facebook |-> <<>>, twitter |-> <<>>, instagram |-> <<>>, totales |-> <<>>]

\* lines 53-54
flush_campus(done, campus) ==
    IF campus # <<>> THEN Append(done, campus) ELSE done

\* slip: the campus still being filled at end of input is not appended
final_campuses_lost(done, campus) == done

\* lines 85-86
final_campuses(done, campus) ==
    IF campus # <<>> THEN Append(done, campus) ELSE done

\* lines 81-82
store_score(campus, platform, score_type, score_value, category) ==
    [campus EXCEPT ![platform] =
        (categoria_key[score_type] :> category) @@ (score_type :> score_value) @@ @]

\* slip: a campus row leaves current_platform as it was
process_row_sticky(st, row) ==
    IF Len(row) < 2 THEN st
    ELSE LET left_col == lower(strip(row[1]))
             right_col == strip(row[2])
         IN  IF left_col = <<"c", "a", "m", "p", "u", "s">>
             THEN [campuses |-> flush_campus(st.campuses, st.current_campus),
                   current_campus |-> new_campus(right_col),
                   current_platform |-> st.current_platform]
             ELSE IF table_get(platform_names, left_col, "") # ""
             THEN [st EXCEPT !.current_platform = table_get(platform_names, left_col, "")]
             ELSE IF table_get(score_names, left_col, "") # ""
             THEN LET score_type == normalize_score_name(left_col)
                      score_value == parse_score(right_col)
                      category == categorize_score(score_value)
                  IN  IF st.current_platform # "" /\ st.current_campus # <<>>
                      THEN [st EXCEPT !.current_campus =
                               store_score(@, st.current_platform, score_type,
                                           score_value, category)]
                      ELSE st
             ELSE st

\* lines 44-82: the body of the loop over the rows
process_row(st, row) ==
    IF Len(row) < 2 THEN st
    ELSE LET left_col == lower(strip(row[1]))
             right_col == strip(row[2])
         IN  IF left_col = <<"c", "a", "m", "p", "u", "s">>
             THEN [campuses |-> flush_campus(st.campuses, st.current_campus),
                   current_campus |-> new_campus(right_col),
                   current_platform |-> ""]
             ELSE IF table_get(platform_names, left_col, "") # ""
             THEN [st EXCEPT !.current_platform = table_get(platform_names, left_col, "")]
             ELSE IF table_get(score_names, left_col, "") # ""
             THEN LET score_type == normalize_score_name(left_col)
                      score_value == parse_score(right_col)
                      category == categorize_score(score_value)
                  IN  IF st.current_platform # "" /\ st.current_campus # <<>>
                      THEN [st EXCEPT !.current_campus =
                               store_score(@, st.current_platform, score_type,
                                           score_value, category)]
                      ELSE st
             ELSE st

\* lines 89-102
scores_document(done) == [campuses |-> done, total_campuses |-> Len(done)]

\* the rows csv.reader yields
CsvRows ==
    { <<<<"C", "a", "m", "p", "u", "s">>, <<"M", "o", "n", "t", "e", "r", "r", "e", "y">>>>,
      <<<<" ", "C", "A", "M", "P", "U", "S", " ">>, <<" ", "C", "d", ".", " ", "J", "u", "a'", "r", "e", "z", " ">>>>,
      <<<<"c", "a", "m", "p", "u", "s">>>>,
      <<<<"F", "a", "c", "e", "b", "o", "o", "k">>, <<>> >>,
      <<<<"T", "o", "t", "a", "l", "e", "s">>, <<"C", "a", "l", "i", "f", "i", "c", "a", "c", "i", "o", "n", "e", "s">>>>,
      <<<<"V", "i", "s", "i", "b", "i", "l", "i", "d", "a", "d">>, <<"8", "2">>>>,
      <<<<"S", "a", "l", "u", "d", " ", "d", "e", " ", "M", "a", "r", "c", "a">>, <<"1", ",", "2", "0", "0">>>>,
      <<<<"R", "e", "s", "o", "n", "a", "n", "c", "i", "a">>, <<"c", "a", "l", "i", "f", "i", "c", "a", "c", "i", "o", "n", "e", "s">>>>,
      <<<<"N", "o", "t", "a", "s">>, <<"x">>>> }

InitScores ==
    /\ csv_rows = <<>>
    /\ campuses = <<>>
    /\ current_campus = <<>>
    /\ current_platform = ""
    /\ scores_output = <<>>
    /\ cpc = "rows"
    /\ IdleResolve
    /\ IdleMetrics
    /\ IdlePublications
    /\ IdleCategorize

ProcessRow ==
    /\ cpc = "rows"
    /\ Len(csv_rows) < MaxRows
    /\ \E row \in CsvRows :
          LET st == process_row([campuses |-> campuses,
                                 current_campus |-> current_campus,
                                 current_platform |-> current_platform], row)
          IN  /\ csv_rows' = Append(csv_rows, row)
              /\ campuses' = st.campuses
              /\ current_campus' = st.current_campus
              /\ current_platform' = st.current_platform
    /\ UNCHANGED <<scores_output, cpc, resVars, metVars, pubVars, catVars>>

EndOfInput ==
    /\ cpc = "rows"
    /\ campuses' = final_campuses(campuses, current_campus)
    /\ scores_output' = scores_document(campuses')
    /\ cpc' = "done"
    /\ UNCHANGED <<csv_rows, current_campus, current_platform, resVars, metVars, pubVars, catVars>>

NextScores == ProcessRow \/ EndOfInput

SpecScores == InitScores /\ [][NextScores]_vars

----------------------------------------------------------------------------
\* categorize_score on its own and inside the score-table parser.

ScoreSpan == 5
MaxScoreRows == 4

\* the arguments categorize_score is called with: every integer within
\* ScoreSpan of a threshold or between two thresholds, some far ones, None
Scores ==
    {Num(n) : n \in ((75 - ScoreSpan)..(141 + ScoreSpan)) \cup {-1, 0, 1200}} \cup {Null}

\* right-hand cells of score rows: the numbers on both sides of each threshold
ScoreCells ==
    {<<"7", "5">>, <<"7", "6">>, <<"1", "0", "0">>, <<"1", "0", "1">>, <<"1", "2", "0">>, <<"1", "2", "1">>, <<"1", "4", "0">>, <<"1", "4", "1">>,
     <<"-", "3">>, <<"C", "a", "l", "i", "f", "i", "c", "a", "c", "i", "o", "n", "e", "s">>}

ScoreRows ==
    {<<<<"C", "a", "m", "p", "u", "s">>, <<"M", "o", "n", "t", "e", "r", "r", "e", "y">>>>, <<<<"I", "n", "s", "t", "a", "g", "r", "a", "m">>, <<>> >>}
        \cup {<<<<"V", "i", "s", "i", "b", "i", "l", "i", "d", "a", "d">>, cell>> : cell \in ScoreCells}

InitCategorize ==
    /\ score_pair \in Scores \X Scores
    /\ category_pair = <<>>
    /\ kpc = "call"
    /\ IdleResolve
    /\ IdleMetrics
    /\ IdlePublications
    /\ IdleScores

InitCategories == InitCategorize \/ InitScores

Categorize ==
    /\ kpc = "call"
    /\ category_pair' = <<categorize_score(score_pair[1]), categorize_score(score_pair[2])>>
    /\ kpc' = "done"
    /\ UNCHANGED <<score_pair, resVars, metVars, pubVars, csvVars>>

ProcessScoreRow ==
    /\ cpc = "rows"
    /\ Len(csv_rows) < MaxScoreRows
    /\ \E row \in ScoreRows :
          LET st == process_row([campuses |-> campuses,
                                 current_campus |-> current_campus,
                                 current_platform |-> current_platform], row)
          IN  /\ csv_rows' = Append(csv_rows, row)
              /\ campuses' = st.campuses
              /\ current_campus' = st.current_campus
              /\ current_platform' = st.current_platform
    /\ UNCHANGED <<scores_output, cpc, resVars, metVars, pubVars, catVars>>

NextCategories == Categorize \/ ProcessScoreRow \/ EndOfInput

SpecCategories == InitCategories /\ [][NextCategories]_vars

----------------------------------------------------------------------------
\* Properties of the resolver.

\* positions where a parenthesized word token "(w...w)" starts
ParenStarts(s) ==
    {i \in 1..Len(s) :
        /\ s[i] = "("
        /\ \E e \in (i + 2)..Len(s) :
              s[e] = ")" /\ \A k \in (i + 1)..(e - 1) : IsWord(s[k])}

HasParenToken(s) == ParenStarts(s) # {}

\* the word between the parentheses of the first such token
FirstParenToken(s) ==
    LET i == Min(ParenStarts(s))
        e == Min({k \in (i + 1)..Len(s) : s[k] = ")"})
    IN  SubSeq(s, i + 1, e - 1)

RegionName(code) ==
    CAMPUS_MAPPING_region[CHOOSE i \in 1..Len(CAMPUS_MAPPING_region) :
                              CAMPUS_MAPPING_region[i][1] = code][2]

RegionCode(name) ==
    CAMPUS_MAPPING_region[CHOOSE i \in 1..Len(CAMPUS_MAPPING_region) :
                              CAMPUS_MAPPING_region[i][2] = name][1]

\* C4: the display name extract_campus_from_region returns for the text
\* "(C)" of a canonical code C is mapped back to C by map_campus_name_to_id.
C4_NameMapsBackToCode ==
    \A c \in Codes :
        (rpc = "mapped" /\ region_text = <<"(">> \o c \o <<")">>) => mapped_id = c

\* C7: a text whose first parenthesized word token is a known code C, in
\* any letter case, resolves to (C, table[C]); one whose first token T is
\* not a known code resolves to (upper(T), upper(T)), whatever else the
\* text contains.
C7_ParenTokenPrecedence ==
    (rpc # "call" /\ HasParenToken(region_text)) =>
        LET t == upper(FirstParenToken(region_text))
        IN  resolved = IF t \in Codes THEN <<t, RegionName(t)>> ELSE <<t, t>>

C7_Witness ==
    /\ rpc = "resolved"
    /\ region_text = <<"P", "U", "E", " ", "(", "m", "T", "Y", ")", " ", "S", "a", "l", "t", "i", "l", "l", "o">>
    /\ resolved = <<<<"M", "T", "Y">>, <<"M", "o", "n", "t", "e", "r", "r", "e", "y">>>>

\* C8: every display name N of the resolver's table resolves to
\* (the table's code for N, N).
C8_DisplayNameResolves ==
    (rpc # "call" /\ region_text \in Names) =>
        resolved = <<RegionCode(region_text), region_text>>

C8_Witness ==
    /\ rpc = "resolved"
    /\ region_text = <<"M", "o", "n", "t", "e", "r", "r", "e", "y">>
    /\ resolved = <<<<"M", "T", "Y">>, <<"M", "o", "n", "t", "e", "r", "r", "e", "y">>>>

NoStrategyApplies(s) ==
    /\ ~HasParenToken(s)
    /\ \A c \in Codes : ~contains(upper(s), c)
    /\ \A n \in Names : ~contains(lower(s), lower(n))

\* C9: a result is always produced; a text with no parenthesized word
\* token, no known code and no known display name in it resolves to
\* (first 3 characters uppercased, the text) when it has at least 3
\* characters and to ("UNK", the text) otherwise.
C9_FallbackTotal ==
    rpc # "call" =>
        /\ Len(resolved) = 2
        /\ NoStrategyApplies(region_text) =>
              resolved = <<IF Len(region_text) >= 3
                           THEN upper(SubSeq(region_text, 1, 3))
                           ELSE <<"U", "N", "K">>,
                           region_text>>
        /\ region_text = <<>> => resolved = <<<<"U", "N", "K">>, <<>>>>

C9_Witness ==
    /\ rpc = "resolved"
    /\ region_text = <<"T", "e", "c">>
    /\ resolved = <<<<"T", "E", "C">>, <<"T", "e", "c">>>>

----------------------------------------------------------------------------
\* Properties of process_metrics.

current_region(i) == dict_get(current_data[i], "REGION", <<>>)

\* C3: every counter of current_month and previous_year_month of every
\* emitted region entry is a number, never null.
C3_CountersNeverNull ==
    \A i \in 1..Len(regions) : \A k \in MetricKeys :
        /\ regions[i].current_month[k].t = "num"
        /\ regions[i].previous_year_month[k].t = "num"

\* C5: one region entry per current record, in input order, the i-th
\* carrying the (code, name) of the i-th record's REGION text; nothing is
\* deduplicated and total_regions is the number of current records.
C5_OneEntryPerCurrentRecord ==
    /\ Len(regions) = mi
    /\ mi <= Len(current_data)
    /\ \A i \in 1..Len(regions) :
          <<regions[i].campus_id, regions[i].campus_name>>
              = extract_campus_from_region(current_region(i))
    /\ mpc \in {"saved", "returned", "TypeError"} =>
          /\ output.regions = regions
          /\ Len(output.regions) = Len(current_data)
          /\ output.total_regions = Len(current_data)

C5_Witness ==
    /\ mpc = "returned"
    /\ Len(current_data) = 2
    /\ current_region(1) = <<"X", " ", "(", "M", "T", "Y", ")">>
    /\ current_region(2) = <<"M", "T", "Y">>
    /\ output.total_regions = 2
    /\ output.regions[1].campus_id = <<"M", "T", "Y">>
    /\ output.regions[2].campus_id = <<"M", "T", "Y">>

\* the previous records whose REGION text equals that of current record i
same_text(i) ==
    {j \in 1..Len(previous_data) : previous_data[j].REGION = current_region(i)}

\* C6: previous_year_month of a current record's entry comes from the last
\* previous record with exactly the same REGION text, and is all zero when
\* there is none (so always when the previous list is empty).
C6_PreviousByExactText ==
    \A i \in 1..Len(regions) : \A k \in MetricKeys :
        regions[i].previous_year_month[k] =
            IF same_text(i) = {} THEN Num(0)
            ELSE LET p == previous_data[Max(same_text(i))]
                 IN  IF k \in DOMAIN p THEN p[k] ELSE Num(0)

C6_Witness ==
    /\ mpc = "TypeError"
    /\ Len(current_data) = 2 /\ Len(previous_data) = 2
    /\ current_region(1) = <<"X", " ", "(", "M", "T", "Y", ")">>
    /\ current_region(2) = <<"M", "T", "Y">>
    /\ previous_data[1].REGION = <<"M", "T", "Y">>
    /\ previous_data[2].REGION = <<"M", "T", "Y">>
    /\ previous_data[1].POST_COMMENTS__SUM = Num(3)
    /\ previous_data[2].POST_COMMENTS__SUM = Num(4)
    /\ regions[1].previous_year_month = zero_metrics
    /\ regions[2].previous_year_month.POST_COMMENTS__SUM = Num(4)
    /\ regions[2].previous_year_month.VOLUMEN_DE_PUBLICACIONES = Num(0)

----------------------------------------------------------------------------
\* Properties of filter_publications.

\* the campus code of a raw record, <<>> when ACCOUNT does not match
campus_of(pub) ==
    LET match == campus_search(dict_get(pub, "ACCOUNT", <<>>))
    IN  IF match = <<>> THEN <<>> ELSE upper(match)

group_publications_of(g) == campus_grouped_output[g].publications

\* positions of the records of one platform in a group's publications
platform_subset(g, platform) ==
    {i \in 1..Len(group_publications_of(g)) :
        platform_of(group_publications_of(g)[i]) = platform}

\* C1: every emitted group holds at most 4 instagram and at most 4 facebook
\* records, at most 8 in all, and within each platform's subset the
\* engagement scores are non-increasing in list order.
C1_QuotaAndOrder ==
    \A g \in 1..Len(campus_grouped_output) :
        LET pubs == group_publications_of(g)
            instagram == platform_subset(g, "instagram")
            facebook == platform_subset(g, "facebook")
        IN  /\ Cardinality(instagram) <= 4
            /\ Cardinality(facebook) <= 4
            /\ Len(pubs) <= 8
            /\ \A subset \in {instagram, facebook} :
                  \A i, j \in subset :
                      i < j => pubs[i].engagement_score >= pubs[j].engagement_score

C1_Witness ==
    /\ ppc = "done"
    /\ Len(publications_data) = 5
    /\ \A k \in 1..5 : /\ campus_of(publications_data[k]) = <<"G", "D", "L">>
                       /\ platform_of(publications_data[k]) = "instagram"
    /\ Len(campus_grouped_output) = 1
    /\ Cardinality(platform_subset(1, "instagram")) = 4
    /\ group_publications_of(1)[1].engagement_score
           > group_publications_of(1)[4].engagement_score

\* C2 as stated: in every emitted group all instagram records precede all
\* facebook records, whatever the input order.
C2_InstagramBeforeFacebook ==
    \A g \in 1..Len(campus_grouped_output) :
        \A i \in platform_subset(g, "instagram") :
            \A j \in platform_subset(g, "facebook") : i < j

\* the campus code and platform of each raw record there is
raw_keys ==
    [pub \in RawPublications \cup ScoredPublications |-> <<campus_of(pub), platform_of(pub)>>]

\* the campus code and platform of every input record
input_keys == [k \in 1..Len(publications_data) |-> raw_keys[publications_data[k]]]

\* C2 amended: in every emitted group the kept records of the platform
\* whose first qualifying record of that campus comes first in the input
\* precede all kept records of the other platform.
C2_PlatformsInFirstSeenOrder ==
    LET keys == input_keys
        first_seen(campus_id, platform) ==
            Min({k \in 1..Len(keys) : keys[k] = <<campus_id, platform>>})
    IN  \A g \in 1..Len(campus_grouped_output) :
            LET instagram == platform_subset(g, "instagram")
                facebook == platform_subset(g, "facebook")
                instagram_first ==
                    first_seen(campus_grouped_output[g].campus_id, "instagram")
                        < first_seen(campus_grouped_output[g].campus_id, "facebook")
            IN  (instagram # {} /\ facebook # {}) =>
                    \A i \in instagram : \A j \in facebook : (i < j) <=> instagram_first

C2_Witness ==
    /\ ppc = "done"
    /\ Len(campus_grouped_output) >= 1
    /\ Len(group_publications_of(1)) >= 3
    /\ platform_of(group_publications_of(1)[1]) = "facebook"
    /\ platform_of(group_publications_of(1)[2]) = "instagram"
    /\ platform_of(group_publications_of(1)[3]) = "instagram"
    /\ platform_of(publications_data[1]) = "facebook"

\* positions of the input records that qualify: ACCOUNT matches the campus
\* pattern and the platform is instagram or facebook
qualifying(keys) == {k \in 1..Len(keys) : keys[k][1] # <<>> /\ keys[k][2] # ""}

\* C12: the output holds exactly one group per campus code that has a
\* qualifying record, in the order of each code's first qualifying record;
\* a campus without a qualifying record has no group, and no group has an
\* empty publications list.
C12_OneGroupPerQualifyingCampus ==
    ppc = "done" =>
        LET keys == input_keys
            qual == qualifying(keys)
            out == campus_grouped_output
            first_qualifying(campus_id) == Min({k \in qual : keys[k][1] = campus_id})
        IN  /\ {out[g].campus_id : g \in 1..Len(out)} = {keys[k][1] : k \in qual}
            /\ \A g, h \in 1..Len(out) :
                  g < h => /\ out[g].campus_id # out[h].campus_id
                           /\ first_qualifying(out[g].campus_id)
                                  < first_qualifying(out[h].campus_id)
            /\ \A g \in 1..Len(out) : out[g].publications # <<>>

\* MTY qualifies before GDL does, a PUE record is on another platform and a
\* record fails the pattern: the groups are MTY then GDL and nothing else
C12_Witness ==
    /\ ppc = "done"
    /\ Len(campus_grouped_output) = 2
    /\ campus_grouped_output[1].campus_id = <<"M", "T", "Y">>
    /\ campus_grouped_output[2].campus_id = <<"G", "D", "L">>
    /\ \E k \in 1..Len(publications_data) :
          /\ campus_of(publications_data[k]) = <<"P", "U", "E">>
          /\ platform_of(publications_data[k]) = ""
    /\ \E k \in 1..Len(publications_data) : campus_of(publications_data[k]) = <<>>
    /\ campus_of(publications_data[1]) = <<"P", "U", "E">>

\* the kept records of one platform in a group, in output order
kept_posts(g, platform) ==
    SelectSeq(group_publications_of(g), LAMBDA post : platform_of(post) = platform)

\* interactions x 10 + reach of a raw record, a missing or null one counting 0
raw_score(pub) ==
    LET number(key) == IF key \in DOMAIN pub /\ pub[key].t = "num" THEN pub[key].v ELSE 0
    IN  number("INTERACCIONES_GENERAL__SUM") * 10 + number("ALCANCE_GENERAL__SUM")

\* the score and the emitted form of each raw record there is
raw_scores == [pub \in RawPublications \cup ScoredPublications |-> raw_score(pub)]
raw_filtered == [pub \in RawPublications \cup ScoredPublications |-> filtered_pub(pub)]

\* C13: of the n qualifying records of a campus and platform exactly
\* min(4, n) are kept; the r-th kept record is the one that has r - 1
\* records of its group ahead of it, counting those with a higher
\* engagement_score and those with the same score that come earlier in the
\* input; no dropped record outscores a kept one, and every kept record's
\* ACCOUNT carries the group's campus code.
C13_TopFourByScoreStable ==
    ppc = "done" =>
        LET keys == input_keys
            out == campus_grouped_output
            score == [k \in 1..Len(keys) |-> raw_scores[publications_data[k]]]
        IN  \A g \in 1..Len(out) :
                /\ \A post \in Range(out[g].publications) :
                      /\ campus_of(post) = out[g].campus_id
                      /\ platform_of(post) \in {"instagram", "facebook"}
                /\ \A platform \in {"instagram", "facebook"} :
                      LET members == {k \in 1..Len(keys) :
                                         keys[k] = <<out[g].campus_id, platform>>}
                          rank == [k \in members |->
                                     1 + Cardinality({j \in members :
                                                        \/ score[j] > score[k]
                                                        \/ score[j] = score[k] /\ j < k})]
                          kept == kept_posts(g, platform)
                      IN  /\ Len(kept) = Min({4, Cardinality(members)})
                          /\ \A k \in members :
                                IF rank[k] <= 4
                                THEN /\ kept[rank[k]] = raw_filtered[publications_data[k]]
                                     /\ kept[rank[k]].engagement_score = score[k]
                                ELSE \A r \in 1..Len(kept) :
                                        score[k] <= kept[r].engagement_score

\* the scores 10, 50, 30, 20, 40 of one campus and platform, in this order
C13_Witness ==
    /\ ppc = "done"
    /\ Len(publications_data) = 5
    /\ \A k \in 1..5 : input_keys[k] = <<<<"G", "D", "L">>, "instagram">>
    /\ [k \in 1..5 |-> raw_score(publications_data[k])] = <<10, 50, 30, 20, 40>>
    /\ Len(campus_grouped_output) = 1
    /\ [r \in 1..4 |-> group_publications_of(1)[r].engagement_score]
           = <<50, 40, 30, 20>>
    /\ Len(group_publications_of(1)) = 4

----------------------------------------------------------------------------
\* Properties of parse_campus_scores_csv.

is_campus_row(row) == Len(row) >= 2 /\ lower(strip(row[1])) = <<"c", "a", "m", "p", "u", "s">>

\* the campus rows read so far, in file order
campus_rows == SelectSeq(csv_rows, is_campus_row)

\* C10: one campus entry per campus row, in file order, the last one
\* flushed at end of input; equal names give separate entries and
\* total_campuses is the number of campus rows.
C10_OneEntryPerCampusRow ==
    /\ cpc = "rows" =>
          Len(campuses) + (IF current_campus # <<>> THEN 1 ELSE 0) = Len(campus_rows)
    /\ cpc = "done" =>
          /\ Len(campuses) = Len(campus_rows)
          /\ \A i \in 1..Len(campuses) :
                campuses[i].campus_name = strip(campus_rows[i][2])
          /\ scores_output.campuses = campuses
          /\ scores_output.total_campuses = Len(campus_rows)

C10_Witness ==
    /\ cpc = "done"
    /\ Len(csv_rows) = 3
    /\ csv_rows[1] = <<<<"C", "a", "m", "p", "u", "s">>, <<"M", "o", "n", "t", "e", "r", "r", "e", "y">>>>
    /\ csv_rows[2] = <<<<"C", "a", "m", "p", "u", "s">>, <<"M", "o", "n", "t", "e", "r", "r", "e", "y">>>>
    /\ csv_rows[3] = <<<<"N", "o", "t", "a", "s">>, <<"x">>>>
    /\ scores_output.total_campuses = 2
    /\ campuses[1].campus_name = campuses[2].campus_name

\* the kind of a row with two or more cells, by its stripped lowercased left cell
left_cell(row) == lower(strip(row[1]))
is_platform_row(row) ==
    Len(row) >= 2
        /\ left_cell(row) \in {<<"f", "a", "c", "e", "b", "o", "o", "k">>, <<"t", "w", "i", "t", "t", "e", "r">>, <<"i", "n", "s", "t", "a", "g", "r", "a", "m">>, <<"t", "o", "t", "a", "l", "e", "s">>}
is_metric_row(row) ==
    Len(row) >= 2
        /\ left_cell(row) \in {<<"v", "i", "s", "i", "b", "i", "l", "i", "d", "a", "d">>, <<"r", "e", "s", "o", "n", "a", "n", "c", "i", "a">>, <<"p", "e", "r", "m", "a", "n", "e", "n", "c", "i", "a">>,
                               <<"s", "e", "n", "t", "i", "m", "i", "e", "n", "t", "o">>, <<"s", "a", "l", "u", "d", " ", "d", "e", " ", "m", "a", "r", "c", "a">>}

\* the two score-sets differ at most in the named score and its category
same_but_score(old, new, score_type) ==
    /\ DOMAIN new = DOMAIN old \cup {score_type, categoria_key[score_type]}
    /\ \A key \in DOMAIN old \ {score_type, categoria_key[score_type]} :
          new[key] = old[key]

\* what reading the row that ends csv_rows' may have changed
row_frame(row) ==
    /\ is_metric_row(row) =>
          /\ campuses' = campuses
          /\ current_platform' = current_platform
          /\ IF current_campus # <<>> /\ current_platform # ""
             THEN /\ DOMAIN current_campus' = DOMAIN current_campus
                  /\ \A field \in DOMAIN current_campus \ {current_platform} :
                        current_campus'[field] = current_campus[field]
                  /\ same_but_score(current_campus[current_platform],
                                    current_campus'[current_platform],
                                    normalize_score_name(left_cell(row)))
             ELSE current_campus' = current_campus
    /\ is_campus_row(row) =>
          /\ current_platform' = ""
          /\ \A p \in {"facebook", "twitter", "instagram", "totales"} :
                current_campus'[p] = <<>>
          /\ \A c \in 1..Len(campuses) : campuses'[c] = campuses[c]
    /\ is_platform_row(row) =>
          /\ campuses' = campuses
          /\ current_campus' = current_campus

\* C14: a metric row changes something only when a campus and a platform
\* are current, and then only the named score and its category in that
\* campus's score-set of that platform; a campus row clears the current
\* platform, so a metric row before the first campus row, or between a
\* campus row and the next platform row, changes neither the completed list
\* nor any score-set; a platform row changes only the current platform.
C14_RowFrames ==
    [][Len(csv_rows') = Len(csv_rows) + 1 => row_frame(csv_rows'[Len(csv_rows')])]_vars

\* a metric row right after the second campus row, the first campus having
\* ended on its facebook rows: nothing is stored anywhere
C14_Witness ==
    /\ cpc = "rows"
    /\ Len(csv_rows) = 4
    /\ is_campus_row(csv_rows[1])
    /\ is_platform_row(csv_rows[2])
    /\ is_campus_row(csv_rows[3])
    /\ is_metric_row(csv_rows[4])
    /\ Len(campuses) = 1
    /\ campuses[1].facebook = <<>>
    /\ current_campus.facebook = <<>>
    /\ current_platform = ""

----------------------------------------------------------------------------
\* Properties of categorize_score.

CategoryNames == {"deficiente", "regular", "satisfactorio", "sobresaliente", "excepcional"}

\* the category the score bands assign: up to 75, 76-100, 101-120, 121-140, 141 and up
band_category(score) ==
    IF score.t = "null" THEN "None"
    ELSE CHOOSE c \in CategoryNames :
            \/ c = "deficiente" /\ score.v <= 75
            \/ c = "regular" /\ 76 <= score.v /\ score.v <= 100
            \/ c = "satisfactorio" /\ 101 <= score.v /\ score.v <= 120
            \/ c = "sobresaliente" /\ 121 <= score.v /\ score.v <= 140
            \/ c = "excepcional" /\ 141 <= score.v

category_rank(c) ==
    CASE c = "deficiente" -> 1
      [] c = "regular" -> 2
      [] c = "satisfactorio" -> 3
      [] c = "sobresaliente" -> 4
      [] c = "excepcional" -> 5

\* every campus the parser holds: the completed ones and the one being filled
held_campuses ==
    {campuses[c] : c \in 1..Len(campuses)}
        \cup (IF current_campus = <<>> THEN {} ELSE {current_campus})

platform_keys == {"facebook", "twitter", "instagram", "totales"}

\* C11: categorize_score gives deficiente up to 75, regular for 76-100,
\* satisfactorio for 101-120, sobresaliente for 121-140, excepcional from 141
\* and no category for no score; so of two integer scores the smaller never
\* has the higher category rank; and every score the score-table parser has
\* stored sits next to the category of its band.
C11_BandsAndStoredCategories ==
    /\ kpc = "done" =>
          /\ \A i \in 1..2 : category_pair[i] = band_category(score_pair[i])
          /\ (/\ score_pair[1].t = "num"
              /\ score_pair[2].t = "num"
              /\ score_pair[1].v < score_pair[2].v)
                => category_rank(category_pair[1]) <= category_rank(category_pair[2])
    /\ \A campus \in held_campuses : \A p \in platform_keys :
          \A k \in DOMAIN campus[p] \cap DOMAIN categoria_key :
              /\ categoria_key[k] \in DOMAIN campus[p]
              /\ campus[p][categoria_key[k]] = band_category(campus[p][k])

\* 75 and 76 fall on the two sides of the first threshold
C11_Witness ==
    /\ kpc = "done"
    /\ score_pair = <<Num(75), Num(76)>>
    /\ category_pair = <<"deficiente", "regular">>

====
